---- MODULE Spec2Model ----
(***************************************************************************)
(* A model of intuition/finance.py: the moving-average engine, the RSI     *)
(* recursion, the MACD composition and the returns engine.                 *)
(*                                                                         *)
(* Numbers.  The program computes in IEEE floating point.  The model       *)
(* computes in exact rationals extended with +inf, -inf and NaN: a value   *)
(* is a pair <<n, d>> in lowest terms with d > 0, or <<1, 0>> (+inf),      *)
(* <<-1, 0>> (-inf), <<0, 0>> (NaN).  Rounding and signed zeros are not    *)
(* modelled.  The input series are float series whose entries are whole    *)
(* numbers in 0..MaxPrice.                                                 *)
(*                                                                         *)
(* Arrays are functions on 0..n-1, as in the source.  Array objects live   *)
(* in heap, a sequence of arrays indexed by address, so that an in-place   *)
(* write names the object it writes to.                                    *)
(***************************************************************************)
EXTENDS Integers, Sequences, FiniteSets, TLC

\* Longest input series.
MaxLen == 4
\* Input values are drawn from 0..MaxPrice.
MaxPrice == 2
\* Fixed-point scale in which exp() is evaluated, and the number of series terms.
ExpScale == 100
ExpTerms == 8

VARIABLES heap, pc, call, ret, deltas, up, down, rsi, i

vars == <<heap, pc, call, ret, deltas, up, down, rsi, i>>

----------------------------------------------------------------------------
\* Float arithmetic, on extended rationals.

Abs(n) == IF n < 0 THEN -n ELSE n

Sign(n) == IF n > 0 THEN 1 ELSE IF n < 0 THEN -1 ELSE 0

Min(a, b) == IF a < b THEN a ELSE b

Max(a, b) == IF a > b THEN a ELSE b

RECURSIVE GCD(_, _)
GCD(a, b) == IF b = 0 THEN a ELSE GCD(b, a % b)

Norm(n, d) ==
    IF d = 0 THEN <<Sign(n), 0>>
    ELSE LET g == GCD(Abs(n), Abs(d))
             s == IF d < 0 THEN -1 ELSE 1
         IN  <<(s * n) \div g, (s * d) \div g>>

Flt(k) == <<k, 1>>

NaN == <<0, 0>>

IsNaN(x) == x = NaN

IsFinite(x) == x[2] # 0

Neg(x) == <<-x[1], x[2]>>

Add(x, y) ==
    IF IsNaN(x) \/ IsNaN(y) THEN NaN
    ELSE IF ~IsFinite(x) /\ ~IsFinite(y) THEN (IF x = y THEN x ELSE NaN)
    ELSE IF ~IsFinite(x) THEN x
    ELSE IF ~IsFinite(y) THEN y
    ELSE Norm(x[1] * y[2] + y[1] * x[2], x[2] * y[2])

Sub(x, y) == Add(x, Neg(y))

Mul(x, y) ==
    IF IsNaN(x) \/ IsNaN(y) THEN NaN
    ELSE IF ~IsFinite(x) \/ ~IsFinite(y)
         THEN <<Sign(x[1]) * Sign(y[1]), 0>>
    ELSE Norm(x[1] * y[1], x[2] * y[2])

\* numpy / pandas true division: x/0 is +-inf or NaN (a warning, no exception).
Div(x, y) ==
    IF IsNaN(x) \/ IsNaN(y) THEN NaN
    ELSE IF ~IsFinite(y) THEN (IF IsFinite(x) THEN Flt(0) ELSE NaN)
    ELSE IF y[1] = 0 THEN <<Sign(x[1]), 0>>
    ELSE IF ~IsFinite(x) THEN <<Sign(x[1]) * Sign(y[1]), 0>>
    ELSE Norm(x[1] * y[2], x[2] * y[1])

\* x > 0, x >= 0, x < 0 and x <= y as floats compare (false on NaN).
Gt0(x) == x[1] > 0

Ge0(x) == ~IsNaN(x) /\ x[1] >= 0

Lt0(x) == x[1] < 0

Le(x, y) ==
    /\ ~IsNaN(x) /\ ~IsNaN(y)
    /\ IF IsFinite(x) /\ IsFinite(y) THEN x[1] * y[2] <= y[1] * x[2]
       ELSE IF ~IsFinite(x) THEN (x[1] < 0 \/ x = y)
       ELSE y[1] > 0

----------------------------------------------------------------------------
\* Arrays and the Python / numpy operations the source uses on them.

Len0(a) == Cardinality(DOMAIN a)

Empty == [k \in {} |-> NaN]

\* An array object holding the entries of a: every entry is computed once, when
\* the array is made.
RECURSIVE ndarrayTo(_, _)
ndarrayTo(a, n) == IF n = 0 THEN Empty ELSE ndarrayTo(a, n - 1) @@ ((n - 1) :> a[n - 1])

ndarray(a) == ndarrayTo(a, Len0(a))

\* a[k] with Python's negative indices; InRange is false where a[k] raises IndexError.
PyIndex(n, k) == IF k < 0 THEN k + n ELSE k

InRange(n, k) == PyIndex(n, k) >= 0 /\ PyIndex(n, k) < n

\* The stop position of the slice a[:k].
SliceStop(n, k) == IF k < 0 THEN Max(n + k, 0) ELSE Min(k, n)

\* a[:k]
SliceTo(a, k) == ndarray([j \in 0..(SliceStop(Len0(a), k) - 1) |-> a[j]])

\* a[k:] for k >= 0
SliceFrom(a, k) ==
    ndarray([j \in 0..(Len0(a) - Min(k, Len0(a)) - 1) |-> a[j + Min(k, Len0(a))]])

\* a[:k] = v
SetSliceTo(a, k, v) ==
    ndarray([j \in DOMAIN a |-> IF j < SliceStop(Len0(a), k) THEN v ELSE a[j]])

RECURSIVE SumTo(_, _)
SumTo(a, n) == IF n = 0 THEN Flt(0) ELSE Add(SumTo(a, n - 1), a[n - 1])

\* a.sum()
Sum(a) == SumTo(a, Len0(a))

\* np.diff(a)
diff(a) == ndarray([j \in 0..(Len0(a) - 2) |-> Sub(a[j + 1], a[j])])

\* np.ones(n), for n >= 0
ones(n) == ndarray([j \in 0..(n - 1) |-> Flt(1)])

\* exp(-num/den) in fixed point, by Horner's rule on the exponential series:
\* the result is scaled by ExpScale.
RECURSIVE ExpHorner(_, _, _, _)
ExpHorner(num, den, k, t) ==
    IF k = 0 THEN t
    ELSE ExpHorner(num, den, k - 1,
                   ExpScale * 100 - (t * num + (den * k) \div 2) \div (den * k))

ExpFix(num, den) == (ExpHorner(num, den, ExpTerms, ExpScale * 100) + 50) \div 100

\* np.exp(np.linspace(-1., 0., n)), for n >= 0: sample j is exp(-1 + j/(n-1)).
exp_linspace(n) ==
    ndarray([j \in 0..(n - 1) |->
               IF n = 1 THEN Norm(ExpFix(1, 1), ExpScale)
               ELSE Norm(ExpFix(n - 1 - j, n - 1), ExpScale)])

\* np.convolve(a, v, mode='full'), both non-empty: out[n] = sum_m a[m] * v[n - m].
RECURSIVE ConvAt(_, _, _, _)
ConvAt(a, v, n, m) ==
    IF m < 0 THEN Flt(0)
    ELSE Add(ConvAt(a, v, n, m - 1),
             IF n - m >= 0 /\ n - m < Len0(v) THEN Mul(a[m], v[n - m]) ELSE Flt(0))

convolve(a, v) ==
    ndarray([n \in 0..(Len0(a) + Len0(v) - 2) |-> ConvAt(a, v, n, Min(n, Len0(a) - 1))])

----------------------------------------------------------------------------
\* The heap of array objects.  The caller's series is the object at InputAddr.

InputAddr == 1

\* A freshly allocated array holding contents (the result of np.convolve,
\* np.zeros_like, an arithmetic expression on arrays, or a pandas expression).
NewArray(h, contents) ==
    [heap |-> Append(h, contents), addr |-> Len(h) + 1]

\* What a call hands back: ok with the addresses of the returned arrays or a
\* scalar, or an exception.
Raised(h) == [heap |-> h, status |-> "error", arrays |-> <<>>, scalar |-> NaN]

Returned(h, addrs) == [heap |-> h, status |-> "ok", arrays |-> addrs, scalar |-> NaN]

ReturnedScalar(h, x) == [heap |-> h, status |-> "ok", arrays |-> <<>>, scalar |-> x]

----------------------------------------------------------------------------
\* moving_average(data, periods, type)

\* The weights before normalisation; the else branch takes every type but 'simple'.
weights_raw(periods, type) ==
    IF type = "simple" THEN ones(periods) ELSE exp_linspace(periods)

\* weights /= weights.sum()
weights_of(periods, type) ==
    LET w == weights_raw(periods, type)
        total == Sum(w)
    IN  ndarray([j \in DOMAIN w |-> Div(w[j], total)])

\* The index whose value fills mavg[:periods].
BootstrapIndex(periods) == periods

moving_average(h, data, periods, type) ==
    IF periods < 0 THEN Raised(h)               \* np.ones / np.linspace: ValueError
    ELSE IF periods = 0 THEN Raised(h)          \* np.convolve: v cannot be empty
    ELSE
      LET weights == weights_of(periods, type)
          full == convolve(h[data], weights)
          a == NewArray(h, SliceTo(full, Len0(h[data])))
          mavg == a.heap[a.addr]
      IN  IF ~InRange(Len0(mavg), BootstrapIndex(periods))
          THEN Raised(a.heap)                   \* mavg[periods]: IndexError
          ELSE Returned(
                 [a.heap EXCEPT ![a.addr] =
                    SetSliceTo(mavg, periods,
                               mavg[PyIndex(Len0(mavg), BootstrapIndex(periods))])],
                 <<a.addr>>)

----------------------------------------------------------------------------
\* relative_strength(prices, periods): the seed, then one loop iteration per step.

\* np.zeros_like(prices)
zeros_likeAliased(h, prices) == [heap |-> h, addr |-> prices]

zeros_like(h, prices) == NewArray(h, ndarray([j \in DOMAIN h[prices] |-> Flt(0)]))

\* seed = deltas[:periods + 1]
seed_of(d, periods) == SliceTo(d, periods + 1)

\* seed[seed >= 0].sum() and seed[seed < 0].sum()
SumNonNeg(seed) == Sum([j \in DOMAIN seed |-> IF Ge0(seed[j]) THEN seed[j] ELSE Flt(0)])

SumNeg(seed) == Sum([j \in DOMAIN seed |-> IF Lt0(seed[j]) THEN seed[j] ELSE Flt(0)])

seed_up(d, periods) == Div(SumNonNeg(seed_of(d, periods)), Flt(periods))

seed_down(d, periods) == Div(Neg(SumNeg(seed_of(d, periods))), Flt(periods))

\* 100. - 100. / (1. + ratio), ratio = up / down
rsi_value(u, dn) == Sub(Flt(100), Div(Flt(100), Add(Flt(1), Div(u, dn))))

\* The difference the iteration for index k reads: deltas[i - 1].
DeltaIndexSame(k) == k

DeltaIndex(k) == k - 1

upval_of(delta) == IF Gt0(delta) THEN delta ELSE Flt(0)

downval_ofUnsigned(delta) == IF Gt0(delta) THEN Flt(0) ELSE delta

downval_of(delta) == IF Gt0(delta) THEN Flt(0) ELSE Neg(delta)

\* (prev * (periods - 1) + val) / periods
smooth(prev, val, periods) == Div(Add(Mul(prev, Flt(periods - 1)), val), Flt(periods))

----------------------------------------------------------------------------
\* moving_average_convergence(data, nslow, nfast)

\* emafast - emaslow
divergenceSwapped(emafast, emaslow) ==
    ndarray([j \in DOMAIN emafast |-> Sub(emaslow[j], emafast[j])])

divergence(emafast, emaslow) ==
    ndarray([j \in DOMAIN emafast |-> Sub(emafast[j], emaslow[j])])

moving_average_convergence(h, data, nslow, nfast) ==
    LET s == moving_average(h, data, nslow, "exponential")
    IN  IF s.status = "error" THEN Raised(s.heap)
        ELSE
          LET f == moving_average(s.heap, data, nfast, "exponential")
          IN  IF f.status = "error" THEN Raised(f.heap)
              ELSE
                LET emaslow == f.heap[s.arrays[1]]
                    emafast == f.heap[f.arrays[1]]
                    m == NewArray(f.heap, divergence(emafast, emaslow))
                IN  Returned(m.heap, <<s.arrays[1], f.arrays[1], m.addr>>)

----------------------------------------------------------------------------
\* returns(ts, type=, cumulative=, period=), start absent (periodic mode)

\* ts.shift(period): position j holds ts[j - period], NaN where there is none.
shift(ts, period) ==
    ndarray([j \in DOMAIN ts |-> IF j - period \in DOMAIN ts THEN ts[j - period] ELSE NaN])

\* Series.cumprod(): NaN entries stay NaN and are skipped by the running product.
RECURSIVE ProdTo(_, _)
ProdTo(a, n) ==
    IF n = 0 THEN Flt(1)
    ELSE Mul(ProdTo(a, n - 1), IF IsNaN(a[n - 1]) THEN Flt(1) ELSE a[n - 1])

cumprod(a) == ndarray([j \in DOMAIN a |-> IF IsNaN(a[j]) THEN NaN ELSE ProdTo(a, j + 1)])

\* relative = 0 if returns_type == 'net' else 1
returns_relative(type) == IF type = "net" THEN 0 ELSE 1

\* How many leading entries the non-cumulative result leaves out: rets_df[1:].
DropCount(period) == 1

returns(h, ts, type, cumulative, period) ==
    LET relative == returns_relative(type)
        shifted == shift(h[ts], period)
        r == NewArray(h, ndarray([j \in DOMAIN h[ts] |->
                            Add(Sub(Div(h[ts][j], shifted[j]), Flt(1)), Flt(relative))]))
        rets_df == r.heap[r.addr]
        out == NewArray(r.heap, IF cumulative THEN cumprod(rets_df)
                                ELSE SliceFrom(rets_df, DropCount(period)))
    IN  Returned(out.heap, <<out.addr>>)

----------------------------------------------------------------------------
\* average_returns(ts, type=, period=)

\* relative = 0 if average_type == 'net' else -1
average_relative(type) == IF type = "net" THEN 0 ELSE -1

\* idx % period == 0, for period # 0 (Python's % takes the sign of the divisor).
Multiple(idx, period) == idx % Abs(period) = 0

RECURSIVE avg_loop(_, _, _, _)
avg_loop(ts, period, relative, n) ==
    IF n = 0 THEN Flt(1)
    ELSE LET prev == avg_loop(ts, period, relative, n - 1)
         IN  IF Multiple(n - 1, period)
             THEN Mul(prev, Add(Add(Flt(1), ts[n - 1]), Flt(relative)))
             ELSE prev

average_returns(h, ts, type, period) ==
    IF period = 0 /\ Len0(h[ts]) > 0 THEN Raised(h)     \* idx % 0: ZeroDivisionError
    ELSE ReturnedScalar(h, Sub(avg_loop(h[ts], period, average_relative(type),
                                        Len0(h[ts])), Flt(1)))

----------------------------------------------------------------------------
\* The inputs.

Values == {Flt(k) : k \in 0..MaxPrice}

Series == UNION {[0..(n - 1) -> Values] : n \in 1..MaxLen}

PeriodsArgs == (-1)..MaxLen

KindArgs == {"simple", "exponential", "weighted"}

TypeArgs == {"net", "gross", "log"}

NoCall == [fn |-> "none", periods |-> 0, nfast |-> 0, type |-> "", cumulative |-> FALSE]

Init ==
    /\ heap \in {<<s>> : s \in Series}
    /\ pc = "idle"
    /\ call = NoCall
    /\ ret = [status |-> "none", arrays |-> <<>>, scalar |-> NaN]
    /\ deltas = Empty
    /\ up = Flt(0)
    /\ down = Flt(0)
    /\ rsi = 0
    /\ i = 0

Finish(r) ==
    /\ heap' = r.heap
    /\ ret' = [status |-> r.status, arrays |-> r.arrays, scalar |-> r.scalar]
    /\ pc' = "done"

MovingAverage ==
    /\ pc = "idle"
    /\ \E periods \in PeriodsArgs, type \in KindArgs :
         /\ call' = [NoCall EXCEPT !.fn = "moving_average", !.periods = periods,
                                   !.type = type]
         /\ Finish(moving_average(heap, InputAddr, periods, type))
    /\ UNCHANGED <<deltas, up, down, rsi, i>>

RelativeStrengthSeed ==
    /\ pc = "idle"
    /\ \E periods \in PeriodsArgs :
         LET d == diff(heap[InputAddr])
             u == seed_up(d, periods)
             dn == seed_down(d, periods)
             z == zeros_like(heap, InputAddr)
         IN  /\ call' = [NoCall EXCEPT !.fn = "relative_strength", !.periods = periods]
             /\ deltas' = d
             /\ up' = u
             /\ down' = dn
             /\ rsi' = z.addr
             /\ heap' = [z.heap EXCEPT ![z.addr] =
                           SetSliceTo(z.heap[z.addr], periods, rsi_value(u, dn))]
             /\ i' = periods
             /\ pc' = "rsi_loop"
    /\ UNCHANGED ret

RelativeStrengthStep ==
    /\ pc = "rsi_loop"
    /\ i < Len0(heap[InputAddr])
    /\ IF ~InRange(Len0(deltas), DeltaIndex(i)) \/ ~InRange(Len0(heap[rsi]), i)
       THEN /\ Finish(Raised(heap))              \* deltas[i - 1]: IndexError
            /\ UNCHANGED <<up, down, i>>
       ELSE LET delta == deltas[PyIndex(Len0(deltas), DeltaIndex(i))]
                u == smooth(up, upval_of(delta), call.periods)
                dn == smooth(down, downval_of(delta), call.periods)
            IN  /\ up' = u
                /\ down' = dn
                /\ heap' = [heap EXCEPT ![rsi][PyIndex(Len0(heap[rsi]), i)] =
                              rsi_value(u, dn)]
                /\ i' = i + 1
                /\ UNCHANGED <<pc, ret>>
    /\ UNCHANGED <<call, deltas, rsi>>

RelativeStrengthReturn ==
    /\ pc = "rsi_loop"
    /\ i >= Len0(heap[InputAddr])
    /\ Finish(Returned(heap, <<rsi>>))
    /\ UNCHANGED <<call, deltas, up, down, rsi, i>>

MovingAverageConvergence ==
    /\ pc = "idle"
    /\ \E nslow \in PeriodsArgs, nfast \in PeriodsArgs :
         /\ call' = [NoCall EXCEPT !.fn = "moving_average_convergence",
                                   !.periods = nslow, !.nfast = nfast]
         /\ Finish(moving_average_convergence(heap, InputAddr, nslow, nfast))
    /\ UNCHANGED <<deltas, up, down, rsi, i>>

Returns ==
    /\ pc = "idle"
    /\ \E type \in TypeArgs, cumulative \in BOOLEAN, period \in PeriodsArgs :
         /\ call' = [NoCall EXCEPT !.fn = "returns", !.periods = period,
                                   !.type = type, !.cumulative = cumulative]
         /\ Finish(returns(heap, InputAddr, type, cumulative, period))
    /\ UNCHANGED <<deltas, up, down, rsi, i>>

AverageReturns ==
    /\ pc = "idle"
    /\ \E type \in TypeArgs, period \in PeriodsArgs :
         /\ call' = [NoCall EXCEPT !.fn = "average_returns", !.periods = period,
                                   !.type = type]
         /\ Finish(average_returns(heap, InputAddr, type, period))
    /\ UNCHANGED <<deltas, up, down, rsi, i>>

Next ==
    \/ MovingAverage
    \/ RelativeStrengthSeed
    \/ RelativeStrengthStep
    \/ RelativeStrengthReturn
    \/ MovingAverageConvergence
    \/ Returns
    \/ AverageReturns

Spec == Init /\ [][Next]_vars

----------------------------------------------------------------------------
\* What the claims speak of.

Input == heap[InputAddr]

Result(k) == heap[ret.arrays[k]]

Done(fn) == pc = "done" /\ call.fn = fn

Ok == ret.status = "ok"

NonZero(a) == \A j \in DOMAIN a : a[j] # Flt(0)

\* The mean of the last periods inputs up to position n, zeros before position 0.
WindowMean(a, periods, n) ==
    Div(Sum([k \in 0..(periods - 1) |-> IF n - k \in DOMAIN a THEN a[n - k] ELSE Flt(0)]),
        Flt(periods))

InPercentRange(x) == Le(Flt(0), x) /\ Le(x, Flt(100))

\* C1: for 1 <= periods <= len(P), periods == len(P) included, the simple moving
\* average returns len(P) entries and entries 0..periods-1 all equal the value of
\* the causal convolution at position periods.
C1_SimpleBootstrap ==
    (Done("moving_average") /\ call.type = "simple"
       /\ 1 <= call.periods /\ call.periods <= Len0(Input))
    => /\ Ok
       /\ Len0(Result(1)) = Len0(Input)
       /\ \A j \in 0..(call.periods - 1) :
            Result(1)[j] = WindowMean(Input, call.periods, call.periods)

\* C2: periodic returns with period p >= 1 (of a series without zeros): without
\* cumulative the first p entries are dropped, leaving len - p defined entries
\* series[i]/series[i-p] - 1 (+ 1 when gross); with cumulative the output keeps
\* the full length.
C2_PeriodicDropsPeriod ==
    (Done("returns") /\ call.periods >= 1 /\ call.type \in {"net", "gross"}
       /\ NonZero(Input))
    => /\ Ok
       /\ IF call.cumulative
          THEN Len0(Result(1)) = Len0(Input)
          ELSE /\ Len0(Result(1)) = Max(Len0(Input) - call.periods, 0)
               /\ \A j \in DOMAIN Result(1) :
                    /\ ~IsNaN(Result(1)[j])
                    /\ Result(1)[j] =
                         Add(Sub(Div(Input[j + call.periods], Input[j]), Flt(1)),
                             Flt(IF call.type = "gross" THEN 1 ELSE 0))

\* C3: with period 1, cumulative and the default type (net), P[0] * R[i] = P[i]
\* for every i >= 1, for a series without zeros.
C3_CumulativeRoundTrip ==
    (Done("returns") /\ call.periods = 1 /\ call.cumulative /\ call.type = "net"
       /\ NonZero(Input))
    => /\ Ok
       /\ \A j \in 1..(Len0(Input) - 1) : Mul(Input[0], Result(1)[j]) = Input[j]

\* The calls with an invalid parameter.
InvalidCall ==
    \/ call.fn \in {"moving_average", "relative_strength", "returns", "average_returns"}
         /\ call.periods <= 0
    \/ call.fn = "moving_average" /\ call.type \notin {"simple", "exponential"}
    \/ call.fn \in {"returns", "average_returns"} /\ call.type \notin {"net", "gross"}

\* C4: a non-positive periods / period, a kind other than simple / exponential and
\* a type other than net / gross each end in an error, with no result.
C4_InvalidRejected ==
    (pc = "done" /\ InvalidCall) => (ret.status = "error" /\ ret.arrays = <<>>)

\* relative_strength past its seed, and what C5 says of it: up >= 0 and down > 0,
\* and the result has the length of prices with every entry in [0, 100].
AfterSeed == call.fn = "relative_strength" /\ pc \in {"rsi_loop", "done"}

RsiBounded ==
    /\ Ge0(up)
    /\ Gt0(down)
    /\ ret.status # "error"
    /\ Len0(heap[rsi]) = Len0(Input)
    /\ \A j \in DOMAIN heap[rsi] : InPercentRange(heap[rsi][j])
    /\ pc = "done" => ret.arrays = <<rsi>>

C6_MacdDivergence ==
    (Done("moving_average_convergence") /\ call.periods >= 1 /\ call.nfast >= 1
       /\ Len0(Input) > Max(call.periods, call.nfast))
    => /\ Ok
       /\ Len(ret.arrays) = 3
       /\ \A k \in 1..3 : Len0(Result(k)) = Len0(Input)
       /\ LET slow == moving_average(<<Input>>, InputAddr, call.periods, "exponential")
              fast == moving_average(<<Input>>, InputAddr, call.nfast, "exponential")
          IN  /\ Result(1) = slow.heap[slow.arrays[1]]
              /\ Result(2) = fast.heap[fast.arrays[1]]
       /\ \A j \in DOMAIN Input : Add(Result(3)[j], Result(1)[j]) = Result(2)[j]

C6_Witness ==
    /\ Done("moving_average_convergence") /\ Ok
    /\ call.periods > call.nfast
    /\ Len0(Input) > call.periods
    /\ Result(3)[0] # Flt(0)
    /\ Result(3)[Len0(Input) - 1] # Result(3)[0]

\* C7: for a constant series and 1 <= periods <= len(series), moving_average
\* returns the constant at every position, for kind simple and kind exponential.
C7_ConstantSeries ==
    (Done("moving_average") /\ call.type \in {"simple", "exponential"}
       /\ 1 <= call.periods /\ call.periods <= Len0(Input)
       /\ \A j \in DOMAIN Input : Input[j] = Input[0])
    => /\ Ok
       /\ Len0(Result(1)) = Len0(Input)
       /\ \A j \in DOMAIN Result(1) : Result(1)[j] = Input[0]

\* C8: no step of any transform changes the caller's series, and no returned
\* array is the caller's series.
C8_InputUntouched ==
    [][/\ heap'[InputAddr] = heap[InputAddr]
       /\ \A k \in DOMAIN ret'.arrays : ret'.arrays[k] # InputAddr]_vars

C8_Witness ==
    /\ pc = "done" /\ Ok
    /\ call.fn \in {"moving_average", "relative_strength"}
    /\ call.periods >= 2
    /\ Len(ret.arrays) = 1
    /\ Result(1)[0] # Flt(0)
    /\ Result(1) # Input

\* diff[0..periods-1], as far as the series has them.
FirstDiffs(periods) ==
    [j \in 0..(Min(periods, Len0(Input) - 1) - 1) |-> Sub(Input[j + 1], Input[j])]

\* C9: right after the seed, up and down are the sums of the positive and of the
\* negative magnitudes among the first periods differences diff[0..periods-1],
\* each divided by periods, and 100 - 100/(1 + up/down) fills positions
\* 0..periods-1.
C9_SeedWindow ==
    (call.fn = "relative_strength" /\ pc = "rsi_loop" /\ i = call.periods
       /\ call.periods >= 1)
    => LET d == FirstDiffs(call.periods)
           u == Div(Sum([j \in DOMAIN d |-> IF Gt0(d[j]) THEN d[j] ELSE Flt(0)]),
                    Flt(call.periods))
           dn == Div(Sum([j \in DOMAIN d |-> IF Lt0(d[j]) THEN Neg(d[j]) ELSE Flt(0)]),
                     Flt(call.periods))
       IN  /\ up = u
           /\ down = dn
           /\ \A j \in 0..(Min(call.periods, Len0(Input)) - 1) :
                heap[rsi][j] = Sub(Flt(100), Div(Flt(100), Add(Flt(1), Div(u, dn))))

\* One iteration of the loop, at index i, as the recurrence is documented.
RsiIteration ==
    LET p == call.periods
        delta == Sub(Input[i], Input[i - 1])
        upval == IF Gt0(delta) THEN delta ELSE Flt(0)
        downval == IF Gt0(delta) THEN Flt(0) ELSE Neg(delta)
    IN  /\ i' = i + 1
        /\ pc' = "rsi_loop"
        /\ up' = Div(Add(Mul(up, Flt(p - 1)), upval), Flt(p))
        /\ down' = Div(Add(Mul(down, Flt(p - 1)), downval), Flt(p))
        /\ heap'[rsi][i] = Sub(Flt(100), Div(Flt(100), Add(Flt(1), Div(up', down'))))
        /\ \A j \in DOMAIN heap[rsi] : j # i => heap'[rsi][j] = heap[rsi][j]
        /\ rsi' = rsi

RsiLoopStep ==
    /\ (pc = "idle" /\ pc' = "rsi_loop" /\ call'.periods >= 1) => i' = call'.periods
    /\ (pc = "rsi_loop" /\ call.periods >= 1) =>
         IF i < Len0(Input) THEN RsiIteration
         ELSE /\ pc' = "done"
              /\ ret'.status = "ok"
              /\ heap' = heap

RsiLoopState ==
    (call.fn = "relative_strength" /\ call.periods >= 1) =>
       /\ call.periods <= i
       /\ i <= Max(call.periods, Len0(Input))
       /\ pc = "done" => i >= Len0(Input)
       /\ \A j \in 0..(Min(call.periods, Len0(Input)) - 1) : heap[rsi][j] = heap[rsi][0]

\* C10: for periods >= 1 the loop starts at i = periods and every iteration
\* moves i to i + 1, reads delta = prices[i] - prices[i-1], updates up and down
\* by the recurrence from their previous values, writes
\* rsi[i] = 100 - 100/(1 + up/down) and leaves every other position alone; the
\* loop ends only at i = len(prices), and positions 0..periods-1 hold one value.
C10_RsiLoop == [][RsiLoopStep]_vars /\ []RsiLoopState

C10_Witness ==
    /\ Done("relative_strength") /\ Ok
    /\ call.periods >= 1
    /\ call.periods + 2 <= Len0(Input)
    /\ Result(1)[call.periods] # Result(1)[0]
    /\ Result(1)[call.periods + 1] # Result(1)[call.periods]

====
